---------------------------- MODULE Spec2Model ----------------------------
(***************************************************************************)
(* motoPlayer: the two-node I2C link.                                      *)
(*                                                                         *)
(*   motoUNO  (src/motoUNO/src/main.cpp): the peripheral.  Its main loop   *)
(*            runs handleRFID, handleENVSensor and handleCommands; the     *)
(*            TWI interrupt runs requestEvent / receiveEvent between any   *)
(*            two statements of the main loop.                             *)
(*   motoMCU  (src/motoMCU/src/main.cpp): the coordinator.  Its loop polls *)
(*            the peripheral and keeps the link flag and the telemetry.    *)
(*                                                                         *)
(* SpecUno is the peripheral (SpecUnoEv its event queue, SpecUnoLive the   *)
(* same under fair scheduling of the loop and the polls, SpecUnoCmd its    *)
(* command slot), SpecMcu the coordinator (SpecMcuLink its boot and polls  *)
(* with the history of the first polls).  Each keeps the other node's      *)
(* variables at their initial values: the bus is the only thing the nodes  *)
(* share, and each specification draws what arrives on the bus from a set  *)
(* of inputs.  In these specifications the millis() gates are inputs too:  *)
(* a task is modelled on the passes where its interval has elapsed, and    *)
(* the clocks and last-run stamps stay at their boot values.  SpecSched is *)
(* the timing of the two loops: it follows the clocks pass by pass and     *)
(* keeps the stamps, with inputs that leave the task bodies empty;         *)
(* SpecPoll is the timing of the polls alone, from power-up, with reads    *)
(* that fail.                                                              *)
(***************************************************************************)
EXTENDS Integers, Sequences, FiniteSets, TLC

\* ------------------------------------------------------------------------
\* Program constants
\* ------------------------------------------------------------------------
I2C_PACKET_SIZE == 10
FLAG_IDLE == 0
FLAG_RFID_NEW == 1
FLAG_ENV_NEW == 2
\* 'P', '+', '-' as the bytes the bus carries
CMD_PLAY == 80
CMD_VOL_UP == 43
CMD_VOL_DOWN == 45

UNO_I2C_REQUEST == 10
LOW == 0
HIGH == 1
BOOT_BLINK_MS == 300
API_BLINK_MS == 250
INITIAL_TEMPERATURE_TENTHS == -9990

\* the intervals of the gated tasks, in milliseconds
I2C_CHECK_INTERVAL_MS == 500
WIFI_RECONNECT_INTERVAL_MS == 10000
RFID_CHECK_INTERVAL_MS == 200
ENV_CHECK_INTERVAL_MS == 2500
\* unsigned long has 32 bits on both targets: millis() and the last-run
\* stamps count modulo 2^32.  A 32-bit value is the pair << high, low >>
\* of its 16-bit halves.
HalfModulus == 65536

\* ------------------------------------------------------------------------
\* Bounds of the model
\* ------------------------------------------------------------------------
\* samples the sampling tasks may accept in one behaviour
MaxSamples == 3
\* command transactions the bus may deliver in one behaviour
MaxRecv == 3
\* the largest byte count a read transaction reports
MaxPollLen == 11
\* the first polls whose outcomes the history keeps
MaxHist == 4
\* passes of each loop the timed specification follows
MaxPasses == 16

\* ------------------------------------------------------------------------
\* Inputs
\* ------------------------------------------------------------------------
\* mfrc522.uid: uidByte[0 .. size-1]; a 4-byte and a 7-byte card
CardUids == { <<222, 173, 190, 239>>, <<1, 10, 0, 255, 4, 5, 6>> }

\* dht.readTemperature() * 10 (tenths of a degree), dht.readHumidity(),
\* analogRead(LDR_PIN); nan: isnan(temp_f) || isnan(humid_f)
EnvReadings ==
    { [nan |-> FALSE, t10 |-> 250, h |-> 50, l |-> 513],
      [nan |-> FALSE, t10 |-> -55, h |-> 80, l |-> 7],
      [nan |-> TRUE, t10 |-> 0, h |-> 0, l |-> 0] }

\* the bytes of one write transaction, as Wire hands them to receiveEvent
RxInputs == { <<>>, <<CMD_PLAY, 5>>, <<CMD_PLAY>>, <<CMD_VOL_UP>>,
              <<CMD_VOL_DOWN>>, <<88>> }

VARIABLES
    \* --- motoUNO globals
    newCardDataAvailable, newENVDataAvailable,
    IsCMD, command_to_run, command_param,
    payload,
    \* --- motoUNO main loop: position and locals
    unoPc, idx, uidLocal, envLocal, cmdTag,
    \* --- motoUNO outputs: the frame last written to the bus, the last
    \* call made on the DFPlayer
    wireOut, player,
    \* --- history: which accepted sample wrote each payload byte, the
    \* samples accepted so far, the frame stored for the pending event of
    \* each kind, full copies sent of each sample
    sampleId, owner, stored, delivered,
    \* --- history: receives so far, the receive whose tag dispatch read,
    \* the (tag, parameter) pairs the slot held after each receive, the
    \* bytes of the (last two) receives since dispatch last read the tag
    rxSeq, dispSeq, held, rxSince,
    \* --- motoMCU globals (lines 51-66); currentTemperature in tenths of
    \* a degree, the LED pins as the levels last written (LOW 0, HIGH 1)
    isUnoOnline, lastRfidFromUno,
    currentTemperature, currentHumidity, lightLevel,
    isBlinking, blinkPin, blinkInterval, blinkLedState, ledG, ledB,
    \* --- motoMCU: position in setup()/loop(), where the flash returns to
    mcuPc, flashRet,
    \* --- motoMCU: what Wire.requestFrom returned to the last executed
    \* poll (byte error, line 167; -1 before the first poll)
    error,
    \* --- motoMCU outputs: the link lines the last poll printed, the bytes
    \* of the last write transaction
    serial, wireTx,
    \* --- history of the first polls: their outcomes, the link flag after
    \* each, the link lines printed
    pollHist, linkHist, logCount,
    \* --- motoMCU timers (lines 47, 52, 59), each a pair of 16-bit halves:
    \* the value millis() returns on the current pass of loop(), the
    \* last-run stamps of the three gated tasks; history: the tasks whose body ran on the latest pass,
    \* the passes made, the clock value at the latest Wire.requestFrom (a
    \* sequence of length 0 before the first one)
    mcuMillis, lastI2CCheckMillis, lastWifiCheckMillis, previousBlinkMillis,
    mcuRan, mcuPasses, polledAt,
    \* --- motoUNO timers (lines 49-50), the same way
    unoMillis, lastRfidCheckMillis, lastENVCheckMillis, unoRan, unoPasses

unoTimers == << unoMillis, lastRfidCheckMillis, lastENVCheckMillis, unoRan,
                unoPasses >>
mcuClock == << mcuMillis, lastI2CCheckMillis, lastWifiCheckMillis, mcuRan,
               mcuPasses, polledAt >>
mcuTimers == << mcuClock, previousBlinkMillis >>

unoVars == << newCardDataAvailable, newENVDataAvailable, IsCMD,
              command_to_run, command_param, payload, unoPc, idx,
              uidLocal, envLocal, cmdTag, wireOut, player, sampleId,
              owner, stored, delivered, rxSeq, dispSeq, held, rxSince,
              unoTimers >>

telemetry == << currentTemperature, currentHumidity, lightLevel >>
indicator == << isBlinking, blinkPin, blinkInterval, blinkLedState, ledG,
                ledB >>
histVars == << pollHist, linkHist, logCount >>
mcuVars == << isUnoOnline, lastRfidFromUno, telemetry, indicator, mcuPc,
              flashRet, error, serial, wireTx, histVars, mcuTimers >>

vars == << unoVars, mcuVars >>

\* ------------------------------------------------------------------------
\* Bytes
\* ------------------------------------------------------------------------
\* (int16_t)x: two's complement, 16 bits
ToInt16(x) ==
    LET u == x % 65536 IN IF u >= 32768 THEN u - 65536 ELSE u

\* (byte)(v >> 8) and (byte)(v & 0xFF) of an int16_t v
HiByte(v) == (v % 65536) \div 256
LoByte(v) == v % 256

Zeros == [i \in 1..I2C_PACKET_SIZE |-> 0]

\* byte idle_payload[I2C_PACKET_SIZE] = {FLAG_IDLE};
IdleFrame == [i \in 1..I2C_PACKET_SIZE |-> IF i = 1 THEN FLAG_IDLE ELSE 0]

\* payload[k] as handleRFID leaves it for a card with identifier uid
\* (k counts from 0, as in the source)
CardByte(uid, k) ==
    IF k = 0 THEN FLAG_RFID_NEW
    ELSE IF k - 1 < Len(uid) THEN uid[k] ELSE 0

\* payload[k] as handleENVSensor leaves it for a reading r
EnvByte(r, k) ==
    LET temp_i16 == ToInt16(r.t10)
        light_i16 == ToInt16(r.l)
    IN  CASE k = 0 -> FLAG_ENV_NEW
          [] k = 1 -> HiByte(temp_i16)
          [] k = 2 -> LoByte(temp_i16)
          [] k = 3 -> r.h % 256
          [] k = 4 -> HiByte(light_i16)
          [] k = 5 -> LoByte(light_i16)
          [] OTHER -> 0

CardFrame(uid) == [i \in 1..I2C_PACKET_SIZE |-> CardByte(uid, i - 1)]
EnvFrame(r) == [i \in 1..I2C_PACKET_SIZE |-> EnvByte(r, i - 1)]

NoSample == [id |-> 0, frame |-> Zeros]

\* the sample whose bytes fill the whole payload (0: none, or a mixture)
WholeOwner(own) ==
    IF \E id \in 1..MaxSamples : \A i \in 1..I2C_PACKET_SIZE : own[i] = id
    THEN CHOOSE id \in 1..MaxSamples : \A i \in 1..I2C_PACKET_SIZE : own[i] = id
    ELSE 0

\* one more full copy of the sample that owns the payload has been sent
Delivered(own, del) ==
    LET w == WholeOwner(own)
    IN  IF w = 0 THEN del
        ELSE [del EXCEPT ![w] = IF @ < 2 THEN @ + 1 ELSE @]

\* ------------------------------------------------------------------------
\* motoUNO: initial state (the globals of lines 41-52, loop() not entered)
\* ------------------------------------------------------------------------
UnoInit ==
    /\ newCardDataAvailable = FALSE
    /\ newENVDataAvailable = FALSE
    /\ IsCMD = FALSE
    /\ command_to_run = 0
    /\ command_param = 0
    /\ payload = Zeros
    /\ unoPc = "rfid"
    /\ idx = 0
    /\ uidLocal = <<>>
    /\ envLocal = [nan |-> TRUE, t10 |-> 0, h |-> 0, l |-> 0]
    /\ cmdTag = 0
    /\ wireOut = <<>>
    /\ player = <<"none">>
    /\ sampleId = 0
    /\ owner = [i \in 1..I2C_PACKET_SIZE |-> 0]
    /\ stored = [card |-> NoSample, env |-> NoSample]
    /\ delivered = [id \in 1..MaxSamples |-> 0]
    /\ rxSeq = 0
    /\ dispSeq = 0
    /\ held = {}
    /\ rxSince = <<>>

evVars == << newCardDataAvailable, newENVDataAvailable, payload, wireOut,
             sampleId, owner, stored, delivered >>
cmdVars == << IsCMD, command_to_run, command_param, player, rxSeq,
              dispSeq, held, rxSince >>

\* ------------------------------------------------------------------------
\* motoUNO main loop: handleRFID, one action per statement that touches
\* state shared with the interrupt.  The millis() gate is an input: whether
\* the interval has elapsed on this pass.
\* ------------------------------------------------------------------------
\* a variant of RfidCheckOn: the pending check of line 103 is missing
RfidCheckOnNoPendingCheck(cards) ==
    /\ unoPc = "rfid"
    /\ \E due \in BOOLEAN, card \in cards :
         IF due /\ Len(card) > 0 /\ sampleId < MaxSamples
         THEN /\ uidLocal' = card
              /\ sampleId' = sampleId + 1
              /\ unoPc' = "rfid_tag"
         ELSE /\ unoPc' = "env"
              /\ UNCHANGED << uidLocal, sampleId >>
    /\ UNCHANGED << newCardDataAvailable, newENVDataAvailable, payload,
                    wireOut, owner, stored, delivered, idx, envLocal,
                    cmdTag >>
    /\ UNCHANGED cmdVars
    /\ UNCHANGED unoTimers
    /\ UNCHANGED mcuVars

\* lines 101-105: the gate, the pending check, the card read; cards are
\* the identifiers the reader may return on this pass (<<>>: no card)
RfidCheckOn(cards) ==
    /\ unoPc = "rfid"
    /\ \E due \in BOOLEAN, card \in cards :
         IF due /\ ~newCardDataAvailable /\ Len(card) > 0
                /\ sampleId < MaxSamples
         THEN /\ uidLocal' = card
              /\ sampleId' = sampleId + 1
              /\ unoPc' = "rfid_tag"
         ELSE /\ unoPc' = "env"
              /\ UNCHANGED << uidLocal, sampleId >>
    /\ UNCHANGED << newCardDataAvailable, newENVDataAvailable, payload,
                    wireOut, owner, stored, delivered, idx, envLocal,
                    cmdTag >>
    /\ UNCHANGED cmdVars
    /\ UNCHANGED unoTimers
    /\ UNCHANGED mcuVars

RfidCheck == RfidCheckOn(CardUids \cup {<<>>})

\* line 106: payload[0] = FLAG_RFID_NEW
RfidWriteTag ==
    /\ unoPc = "rfid_tag"
    /\ payload' = [payload EXCEPT ![1] = CardByte(uidLocal, 0)]
    /\ owner' = [owner EXCEPT ![1] = sampleId]
    /\ idx' = 0
    /\ unoPc' = "rfid_copy"
    /\ UNCHANGED << newCardDataAvailable, newENVDataAvailable, wireOut,
                    sampleId, stored, delivered, uidLocal, envLocal, cmdTag >>
    /\ UNCHANGED cmdVars
    /\ UNCHANGED unoTimers
    /\ UNCHANGED mcuVars

\* lines 108-116: payload[i + 1] = uidByte[i] or 0, for i = 0 .. 8
RfidCopy ==
    /\ unoPc = "rfid_copy"
    /\ payload' = [payload EXCEPT ![idx + 2] = CardByte(uidLocal, idx + 1)]
    /\ owner' = [owner EXCEPT ![idx + 2] = sampleId]
    /\ idx' = idx + 1
    /\ unoPc' = IF idx + 1 < I2C_PACKET_SIZE - 1 THEN "rfid_copy"
                ELSE "rfid_set"
    /\ UNCHANGED << newCardDataAvailable, newENVDataAvailable, wireOut,
                    sampleId, stored, delivered, uidLocal, envLocal, cmdTag >>
    /\ UNCHANGED cmdVars
    /\ UNCHANGED unoTimers
    /\ UNCHANGED mcuVars

\* line 120: newCardDataAvailable = true
RfidSetFlag ==
    /\ unoPc = "rfid_set"
    /\ newCardDataAvailable' = TRUE
    /\ stored' = [stored EXCEPT
                    !.card = [id |-> sampleId, frame |-> CardFrame(uidLocal)]]
    /\ unoPc' = "env"
    /\ UNCHANGED << newENVDataAvailable, payload, wireOut, sampleId, owner,
                    delivered, idx, uidLocal, envLocal, cmdTag >>
    /\ UNCHANGED cmdVars
    /\ UNCHANGED unoTimers
    /\ UNCHANGED mcuVars

handleRFID == RfidCheck \/ RfidWriteTag \/ RfidCopy \/ RfidSetFlag

\* ------------------------------------------------------------------------
\* motoUNO main loop: handleENVSensor
\* ------------------------------------------------------------------------
\* lines 127-136: the gate, the pending check, the sensor reads, isnan;
\* readings are the values the sensors may return on this pass
EnvCheckOn(readings) ==
    /\ unoPc = "env"
    /\ \E due \in BOOLEAN, r \in readings :
         IF due /\ ~newENVDataAvailable /\ ~r.nan /\ sampleId < MaxSamples
         THEN /\ envLocal' = r
              /\ sampleId' = sampleId + 1
              /\ idx' = 0
              /\ unoPc' = "env_write"
         ELSE /\ unoPc' = "cmd"
              /\ UNCHANGED << envLocal, sampleId, idx >>
    /\ UNCHANGED << newCardDataAvailable, newENVDataAvailable, payload,
                    wireOut, owner, stored, delivered, uidLocal, cmdTag >>
    /\ UNCHANGED cmdVars
    /\ UNCHANGED unoTimers
    /\ UNCHANGED mcuVars

EnvCheck == EnvCheckOn(EnvReadings)

\* lines 137-147: payload[0] .. payload[9], one byte per step
EnvWrite ==
    /\ unoPc = "env_write"
    /\ payload' = [payload EXCEPT ![idx + 1] = EnvByte(envLocal, idx)]
    /\ owner' = [owner EXCEPT ![idx + 1] = sampleId]
    /\ idx' = idx + 1
    /\ unoPc' = IF idx + 1 < I2C_PACKET_SIZE THEN "env_write" ELSE "env_set"
    /\ UNCHANGED << newCardDataAvailable, newENVDataAvailable, wireOut,
                    sampleId, stored, delivered, uidLocal, envLocal, cmdTag >>
    /\ UNCHANGED cmdVars
    /\ UNCHANGED unoTimers
    /\ UNCHANGED mcuVars

\* line 148: newENVDataAvailable = true
EnvSetFlag ==
    /\ unoPc = "env_set"
    /\ newENVDataAvailable' = TRUE
    /\ stored' = [stored EXCEPT
                    !.env = [id |-> sampleId, frame |-> EnvFrame(envLocal)]]
    /\ unoPc' = "cmd"
    /\ UNCHANGED << newCardDataAvailable, payload, wireOut, sampleId, owner,
                    delivered, idx, uidLocal, envLocal, cmdTag >>
    /\ UNCHANGED cmdVars
    /\ UNCHANGED unoTimers
    /\ UNCHANGED mcuVars

handleENVSensor == EnvCheck \/ EnvWrite \/ EnvSetFlag

\* ------------------------------------------------------------------------
\* motoUNO main loop: handleCommands
\* ------------------------------------------------------------------------
\* line 170: if (!IsCMD) return;
CmdCheck ==
    /\ unoPc = "cmd"
    /\ unoPc' = IF IsCMD THEN "cmd_switch" ELSE "rfid"
    /\ UNCHANGED << idx, uidLocal, envLocal, cmdTag >>
    /\ UNCHANGED evVars
    /\ UNCHANGED cmdVars
    /\ UNCHANGED unoTimers
    /\ UNCHANGED mcuVars

\* lines 173-185: switch (command_to_run); the volume calls take no argument
CmdSwitch ==
    /\ unoPc = "cmd_switch"
    /\ cmdTag' = command_to_run
    /\ dispSeq' = rxSeq
    /\ rxSince' = <<>>
    /\ player' = CASE command_to_run = CMD_VOL_UP -> <<"volumeUp">>
                   [] command_to_run = CMD_VOL_DOWN -> <<"volumeDown">>
                   [] OTHER -> player
    /\ unoPc' = IF command_to_run = CMD_PLAY THEN "cmd_play" ELSE "cmd_clear"
    /\ UNCHANGED << IsCMD, command_to_run, command_param, rxSeq, held,
                    idx, uidLocal, envLocal >>
    /\ UNCHANGED evVars
    /\ UNCHANGED unoTimers
    /\ UNCHANGED mcuVars

\* line 175: myDFPlayer.play(command_param)
CmdPlay ==
    /\ unoPc = "cmd_play"
    /\ player' = <<"play", command_param>>
    /\ unoPc' = "cmd_clear"
    /\ UNCHANGED << IsCMD, command_to_run, command_param, rxSeq, dispSeq,
                    held, rxSince, idx, uidLocal, envLocal, cmdTag >>
    /\ UNCHANGED evVars
    /\ UNCHANGED unoTimers
    /\ UNCHANGED mcuVars

\* line 187: IsCMD = false
CmdClear ==
    /\ unoPc = "cmd_clear"
    /\ IsCMD' = FALSE
    /\ unoPc' = "rfid"
    /\ UNCHANGED << command_to_run, command_param, player, rxSeq, dispSeq,
                    held, rxSince, idx, uidLocal, envLocal, cmdTag >>
    /\ UNCHANGED evVars
    /\ UNCHANGED unoTimers
    /\ UNCHANGED mcuVars

handleCommands == CmdCheck \/ CmdSwitch \/ CmdPlay \/ CmdClear

\* ------------------------------------------------------------------------
\* motoUNO interrupt: the TWI callbacks.  Each runs to completion (an AVR
\* interrupt handler is not interrupted) at any position of the main loop.
\* ------------------------------------------------------------------------
\* a variant of requestEvent: the environment branch (lines 161-163) is
\* missing
requestEventCardOnly ==
    /\ IF newCardDataAvailable
       THEN /\ wireOut' = payload
            /\ newCardDataAvailable' = FALSE
            /\ delivered' = Delivered(owner, delivered)
            /\ stored' = [stored EXCEPT !.card = NoSample]
            /\ UNCHANGED newENVDataAvailable
       ELSE /\ wireOut' = IdleFrame
            /\ UNCHANGED << newCardDataAvailable, newENVDataAvailable,
                            delivered, stored >>
    /\ UNCHANGED << payload, sampleId, owner, unoPc, idx, uidLocal,
                    envLocal, cmdTag >>
    /\ UNCHANGED cmdVars
    /\ UNCHANGED unoTimers
    /\ UNCHANGED mcuVars

\* lines 156-167
requestEvent ==
    /\ IF newCardDataAvailable
       THEN /\ wireOut' = payload
            /\ newCardDataAvailable' = FALSE
            /\ delivered' = Delivered(owner, delivered)
            /\ stored' = [stored EXCEPT !.card = NoSample]
            /\ UNCHANGED newENVDataAvailable
       ELSE IF newENVDataAvailable
       THEN /\ wireOut' = payload
            /\ newENVDataAvailable' = FALSE
            /\ delivered' = Delivered(owner, delivered)
            /\ stored' = [stored EXCEPT !.env = NoSample]
            /\ UNCHANGED newCardDataAvailable
       ELSE /\ wireOut' = IdleFrame
            /\ UNCHANGED << newCardDataAvailable, newENVDataAvailable,
                            delivered, stored >>
    /\ UNCHANGED << payload, sampleId, owner, unoPc, idx, uidLocal,
                    envLocal, cmdTag >>
    /\ UNCHANGED cmdVars
    /\ UNCHANGED unoTimers
    /\ UNCHANGED mcuVars

\* lines 191-227, for the bytes of one write transaction
receiveEvent(bytes) ==
    /\ rxSeq < MaxRecv
    /\ IF Len(bytes) < 1
       THEN UNCHANGED cmdVars
       ELSE LET command == bytes[1]
                param == CASE command = CMD_PLAY ->
                                IF Len(bytes) > 1 THEN bytes[2]
                                ELSE command_param
                           [] command = CMD_VOL_UP -> 0
                           [] command = CMD_VOL_DOWN -> 0
                           [] OTHER -> command_param
            IN  /\ command_param' = param
                /\ command_to_run' = command
                /\ IsCMD' = TRUE
                /\ rxSeq' = rxSeq + 1
                /\ held' = held \cup {<<command, param>>}
                /\ rxSince' = IF Len(rxSince) < 2 THEN Append(rxSince, bytes)
                              ELSE << rxSince[2], bytes >>
                /\ UNCHANGED << player, dispSeq >>
    /\ UNCHANGED << unoPc, idx, uidLocal, envLocal, cmdTag >>
    /\ UNCHANGED evVars
    /\ UNCHANGED unoTimers
    /\ UNCHANGED mcuVars

Receive == \E bytes \in RxInputs : receiveEvent(bytes)

\* ------------------------------------------------------------------------
\* motoMCU: strings.  A String is the sequence of its characters.
\* ------------------------------------------------------------------------
\* String lastRfidFromUno = "N/A";
NA == <<"N", "/", "A">>

LowerHexDigits == << "0", "1", "2", "3", "4", "5", "6", "7", "8", "9",
                     "a", "b", "c", "d", "e", "f" >>

\* String(b, HEX): lower case, no leading zero
HexString(b) ==
    IF b < 16 THEN << LowerHexDigits[b + 1] >>
    ELSE << LowerHexDigits[(b \div 16) + 1], LowerHexDigits[(b % 16) + 1] >>

\* a variant of UpperChar: the case is left as String(b, HEX) gives it
UpperCharNone(c) == c

\* String::toUpperCase, character by character
UpperChar(c) ==
    CASE c = "a" -> "A" [] c = "b" -> "B" [] c = "c" -> "C"
      [] c = "d" -> "D" [] c = "e" -> "E" [] c = "f" -> "F"
      [] OTHER -> c

ToUpperCase(str) == [i \in 1..Len(str) |-> UpperChar(str[i])]

\* lines 181-185: the loop over packetBuffer[1 .. 4], then toUpperCase
RECURSIVE UidAppend(_, _)
UidAppend(packetBuffer, i) ==
    IF i >= 5 THEN <<>>
    ELSE (IF packetBuffer[i + 1] < 16 THEN <<"0">> ELSE <<>>)
            \o HexString(packetBuffer[i + 1])
            \o UidAppend(packetBuffer, i + 1)

UidString(packetBuffer) == ToUpperCase(UidAppend(packetBuffer, 1))

\* line 192: ((packetBuffer[1] << 8) | packetBuffer[2]) / 10.0, in tenths;
\* the bytes are promoted to int, so the 16 bits are not sign-extended
DecodeTemperature(packetBuffer) == packetBuffer[2] * 256 + packetBuffer[3]

\* line 193
DecodeHumidity(packetBuffer) == packetBuffer[4]

\* line 194: (int)((packetBuffer[4] << 8) | packetBuffer[5])
DecodeLight(packetBuffer) == packetBuffer[5] * 256 + packetBuffer[6]

\* ------------------------------------------------------------------------
\* motoMCU inputs
\* ------------------------------------------------------------------------
\* the byte counts Wire.requestFrom may report
PollLens == 0..MaxPollLen

\* the 10 bytes a complete read may carry: what the peripheral can send
\* (Idle, a card, an environment sample), two kind tags this firmware does
\* not know, and a frame with the environment tag over a card's bytes
PollFrames ==
    {IdleFrame}
        \cup {CardFrame(u) : u \in CardUids}
        \cup {EnvFrame(r) : r \in {x \in EnvReadings : ~x.nan}}
        \cup { <<3, 1, 2, 3, 4, 5, 6, 7, 8, 9>>,
               <<255, 222, 173, 190, 239, 0, 250, 50, 2, 1>>,
               <<2, 222, 173, 190, 239, 0, 0, 0, 0, 0>> }

\* what one read transaction gives: the byte count and, for a complete
\* read, the bytes
PollResults ==
    {<<UNO_I2C_REQUEST, f>> : f \in PollFrames}
        \cup {<<n, Zeros>> : n \in PollLens \ {UNO_I2C_REQUEST}}

\* track numbers and pins the HTTP surface may pass
ApiTracks == {2}
Pins == {"G", "B"}

\* ------------------------------------------------------------------------
\* motoMCU: the state at line 101 of setup(): the globals of lines 51-66,
\* setSolidLEDColor(false, false) done (line 97), Wire begun
\* ------------------------------------------------------------------------
McuInit ==
    /\ isUnoOnline = FALSE
    /\ lastRfidFromUno = NA
    /\ currentTemperature = INITIAL_TEMPERATURE_TENTHS
    /\ currentHumidity = 0
    /\ lightLevel = 0
    /\ isBlinking = FALSE
    /\ blinkPin = " "
    /\ blinkInterval = 0
    /\ blinkLedState = HIGH
    /\ ledG = HIGH
    /\ ledB = HIGH
    /\ mcuPc = "boot_link"
    /\ flashRet = "boot_link"
    /\ error = -1
    /\ serial = <<>>
    /\ wireTx = <<>>
    /\ pollHist = <<>>
    /\ linkHist = <<>>
    /\ logCount = 0

\* ------------------------------------------------------------------------
\* motoMCU: the indicator (lines 395-437)
\* ------------------------------------------------------------------------
\* setLED(pin, status), as the new values of << isBlinking, ledG, ledB >>
SetLED(pin, status, g, b) ==
    LET output == IF status = HIGH THEN LOW ELSE HIGH
    IN  << FALSE,
           IF pin \in {"G", "g", "A", "a"} THEN output ELSE g,
           IF pin \in {"B", "b", "A", "a"} THEN output ELSE b >>

\* a variant of setSolidLEDColor that leaves isBlinking as it is
SetSolidLEDColorKeepsBlinking(g, b) ==
    << isBlinking, IF g THEN LOW ELSE HIGH, IF b THEN LOW ELSE HIGH >>

\* setSolidLEDColor(g, b), as the new values of << isBlinking, ledG, ledB >>
SetSolidLEDColor(g, b) ==
    << FALSE, IF g THEN LOW ELSE HIGH, IF b THEN LOW ELSE HIGH >>

\* startBlinkingLED(pin, ms)
StartBlinkingLED(pin, ms) ==
    /\ isBlinking' = TRUE
    /\ blinkPin' = pin
    /\ blinkInterval' = ms
    /\ previousBlinkMillis' = <<0, 0>>
    /\ blinkLedState' = HIGH
    /\ UNCHANGED << ledG, ledB >>

\* handleBlink() on a pass where the blink interval has elapsed
BlinkToggle ==
    /\ isBlinking
    /\ blinkLedState' = (IF blinkLedState = LOW THEN HIGH ELSE LOW)
    /\ ledG' = IF blinkPin \in {"G", "g", "A", "a"} THEN blinkLedState'
               ELSE ledG
    /\ ledB' = IF blinkPin \in {"B", "b", "A", "a"} THEN blinkLedState'
               ELSE ledB
    /\ UNCHANGED << isBlinking, blinkPin, blinkInterval >>

\* ------------------------------------------------------------------------
\* motoMCU: handleI2CCommunication (lines 164-222) on a pass where the
\* poll interval has elapsed; n is what Wire.requestFrom returned, frame
\* the 10 bytes Wire.readBytes delivers when n = 10
\* ------------------------------------------------------------------------
\* a variant of LinkOk: at least 10 bytes count as a complete read
LinkOkAtLeast(n) == n >= UNO_I2C_REQUEST

\* line 168: if (error == 10)
LinkOk(n) == n = UNO_I2C_REQUEST

\* a variant of LinkLog: a line on every poll, whatever the flag was
LinkLogEveryPoll(n, wasOnline) ==
    IF n = UNO_I2C_REQUEST THEN << <<"online">> >> ELSE << <<"lost", n>> >>

\* a variant of LinkLog: only the loss of the link is printed
LinkLogLossOnly(n, wasOnline) ==
    IF n # UNO_I2C_REQUEST /\ wasOnline THEN << <<"lost", n>> >> ELSE <<>>

\* lines 169-171 and 214-217: the link lines a poll prints, given the
\* link flag before it
LinkLog(n, wasOnline) ==
    IF LinkOk(n)
    THEN IF ~wasOnline THEN << <<"online">> >> ELSE <<>>
    ELSE IF wasOnline THEN << <<"lost", n>> >> ELSE <<>>

\* a variant of CardOnFailure: the identifier survives a failed poll
CardOnFailureKept == lastRfidFromUno

\* line 219: lastRfidFromUno = "N/A"
CardOnFailure == NA

\* a variant of IsIdleFlag: no frame returns early
IsIdleFlagNever(statusFlag) == FALSE

\* line 178: if (statusFlag == 0x00) return;
IsIdleFlag(statusFlag) == statusFlag = 0

\* a variant of IsCardFlag: every tag but 0x02 is taken for a card
IsCardFlagLoose(statusFlag) == statusFlag # 2

\* line 180: case 0x01
IsCardFlag(statusFlag) == statusFlag = 1

\* a variant of IsEnvFlag: every tag from 0x02 on is taken for a sample
IsEnvFlagLoose(statusFlag) == statusFlag >= 2

\* line 190: case 0x02
IsEnvFlag(statusFlag) == statusFlag = 2

Poll(n, frame) ==
    /\ error' = n
    /\ serial' = LinkLog(n, isUnoOnline)
    /\ IF LinkOk(n)
       THEN /\ isUnoOnline' = TRUE
            /\ LET statusFlag == frame[1]
               IN  IF IsIdleFlag(statusFlag)
                   THEN UNCHANGED << lastRfidFromUno, telemetry, indicator,
                                     mcuPc, flashRet >>
                   ELSE /\ lastRfidFromUno' =
                               IF IsCardFlag(statusFlag)
                               THEN UidString(frame)
                               ELSE lastRfidFromUno
                        /\ currentTemperature' =
                               IF IsEnvFlag(statusFlag)
                               THEN DecodeTemperature(frame)
                               ELSE currentTemperature
                        /\ currentHumidity' =
                               IF IsEnvFlag(statusFlag)
                               THEN DecodeHumidity(frame)
                               ELSE currentHumidity
                        /\ lightLevel' =
                               IF IsEnvFlag(statusFlag)
                               THEN DecodeLight(frame)
                               ELSE lightLevel
                        \* line 210: setLED('B', HIGH); line 211: delay(10)
                        /\ LET led == SetLED("B", HIGH, ledG, ledB)
                           IN  /\ isBlinking' = led[1]
                               /\ ledG' = led[2]
                               /\ ledB' = led[3]
                        /\ UNCHANGED << blinkPin, blinkInterval,
                                        blinkLedState >>
                        /\ flashRet' = mcuPc
                        /\ mcuPc' = "flash"
       ELSE /\ isUnoOnline' = FALSE
            /\ lastRfidFromUno' = CardOnFailure
            /\ UNCHANGED << telemetry, indicator, mcuPc, flashRet >>

\* the history of the first MaxHist polls
Record(n) ==
    IF Len(pollHist) < MaxHist
    THEN /\ pollHist' = Append(pollHist, IF n = UNO_I2C_REQUEST THEN "Ok"
                                         ELSE "Err")
         /\ linkHist' = Append(linkHist, isUnoOnline')
         /\ logCount' = logCount + Len(serial')
    ELSE UNCHANGED histVars

\* one executed poll, with any result the bus may give
PollStep(record) ==
    \E res \in PollResults :
        /\ Poll(res[1], res[2])
        /\ IF record THEN Record(res[1]) ELSE UNCHANGED histVars

\* line 101: while (!isUnoOnline) handleI2CCommunication();
BootPollAt(record) ==
    /\ mcuPc = "boot_link"
    /\ ~isUnoOnline
    /\ PollStep(record)
    /\ UNCHANGED wireTx
    /\ UNCHANGED mcuTimers
    /\ UNCHANGED unoVars

\* line 144: handleI2CCommunication() from loop()
LoopPollAt(record) ==
    /\ mcuPc = "loop"
    /\ PollStep(record)
    /\ UNCHANGED wireTx
    /\ UNCHANGED mcuTimers
    /\ UNCHANGED unoVars

BootPoll == BootPollAt(FALSE)
LoopPoll == LoopPollAt(FALSE)
BootPollRec == BootPollAt(TRUE)
LoopPollRec == LoopPollAt(TRUE)

\* line 212: setLED('B', LOW), after the delay
FlashOff ==
    /\ mcuPc = "flash"
    /\ LET led == SetLED("B", LOW, ledG, ledB)
       IN  /\ isBlinking' = led[1]
           /\ ledG' = led[2]
           /\ ledB' = led[3]
    /\ mcuPc' = flashRet
    /\ UNCHANGED << isUnoOnline, lastRfidFromUno, telemetry, blinkPin,
                    blinkInterval, blinkLedState, flashRet, error, serial, wireTx,
                    histVars >>
    /\ UNCHANGED mcuTimers
    /\ UNCHANGED unoVars

\* ------------------------------------------------------------------------
\* motoMCU: commands (lines 225-258)
\* ------------------------------------------------------------------------
\* playTrack / chgVol with the bytes they write: nothing while offline,
\* else the transaction and the green flash (setLED HIGH, delay, setLED LOW)
SendCommandWhileOffline(bytes) ==
    /\ wireTx' = bytes
    /\ LET on == SetLED("G", HIGH, ledG, ledB)
           off == SetLED("G", LOW, on[2], on[3])
       IN  /\ isBlinking' = off[1]
           /\ ledG' = off[2]
           /\ ledB' = off[3]

SendCommand(bytes) ==
    IF ~isUnoOnline
    THEN UNCHANGED << wireTx, isBlinking, ledG, ledB >>
    ELSE /\ wireTx' = bytes
         /\ LET on == SetLED("G", HIGH, ledG, ledB)
                off == SetLED("G", LOW, on[2], on[3])
            IN  /\ isBlinking' = off[1]
                /\ ledG' = off[2]
                /\ ledB' = off[3]

playTrack(trackNumber) == SendCommand(<<CMD_PLAY, trackNumber % 256>>)

chgVol(vol) ==
    SendCommand(CASE vol = "+" -> <<CMD_VOL_UP>>
                  [] vol = "-" -> <<CMD_VOL_DOWN>>
                  [] OTHER -> <<>>)

\* ------------------------------------------------------------------------
\* motoMCU: the rest of setup()
\* ------------------------------------------------------------------------
\* a variant of BootLinkUp: setup() goes on without waiting for the link
BootLinkUpAlways == TRUE

\* line 101: the exit condition of while (!isUnoOnline)
BootLinkUp == isUnoOnline

\* lines 102-110: the link is up; playTrack(1), WiFi.begin,
\* startBlinkingLED('G', 300)
BootPlayTrack ==
    /\ mcuPc = "boot_link"
    /\ BootLinkUp
    /\ wireTx' = <<CMD_PLAY, 1>>
    /\ LET on == SetLED("G", HIGH, ledG, ledB)
           off == SetLED("G", LOW, on[2], on[3])
       IN  /\ ledG' = off[2]
           /\ ledB' = off[3]
    /\ isBlinking' = TRUE
    /\ blinkPin' = "G"
    /\ blinkInterval' = BOOT_BLINK_MS
    /\ previousBlinkMillis' = <<0, 0>>
    /\ blinkLedState' = HIGH
    /\ mcuPc' = "boot_wifi"
    /\ UNCHANGED << isUnoOnline, lastRfidFromUno, telemetry, flashRet,
                    error, serial, histVars >>
    /\ UNCHANGED mcuClock
    /\ UNCHANGED unoVars

\* lines 112-115: handleBlink() while the network is not connected
BootBlink ==
    /\ mcuPc = "boot_wifi"
    /\ BlinkToggle
    /\ UNCHANGED << isUnoOnline, lastRfidFromUno, telemetry, mcuPc,
                    flashRet, error, serial, wireTx, histVars >>
    /\ UNCHANGED mcuTimers
    /\ UNCHANGED unoVars

\* lines 116-136: isBlinking = false, setupWebServer(),
\* setSolidLEDColor(false, false)
BootFinish ==
    /\ mcuPc = "boot_wifi"
    /\ LET led == SetSolidLEDColor(FALSE, FALSE)
       IN  /\ isBlinking' = led[1]
           /\ ledG' = led[2]
           /\ ledB' = led[3]
    /\ mcuPc' = "loop"
    /\ UNCHANGED << isUnoOnline, lastRfidFromUno, telemetry, blinkPin,
                    blinkInterval, blinkLedState, flashRet, error, serial, wireTx,
                    histVars >>
    /\ UNCHANGED mcuTimers
    /\ UNCHANGED unoVars

\* ------------------------------------------------------------------------
\* motoMCU: loop() and the HTTP handlers.  A handler runs between two
\* tasks of loop() or inside the delay of the flash, once the server is
\* started.
\* ------------------------------------------------------------------------
ServerUp == mcuPc = "loop" \/ (mcuPc = "flash" /\ flashRet = "loop")

\* line 143: handleBlink()
handleBlink ==
    /\ mcuPc = "loop"
    /\ BlinkToggle
    /\ UNCHANGED << isUnoOnline, lastRfidFromUno, telemetry, mcuPc,
                    flashRet, error, serial, wireTx, histVars >>
    /\ UNCHANGED mcuTimers
    /\ UNCHANGED unoVars

\* lines 355-374: /api/play?track=n
ApiPlay ==
    /\ ServerUp
    /\ \E trackId \in ApiTracks :
         IF trackId > 0 THEN playTrack(trackId)
         ELSE UNCHANGED << wireTx, isBlinking, ledG, ledB >>
    /\ UNCHANGED << isUnoOnline, lastRfidFromUno, telemetry, blinkPin,
                    blinkInterval, blinkLedState, mcuPc, flashRet, error,
                    serial, histVars >>
    /\ UNCHANGED mcuTimers
    /\ UNCHANGED unoVars

\* lines 375-376: /api/vol_up, /api/vol_down
ApiVolume ==
    /\ ServerUp
    /\ \E vol \in {"+", "-"} : chgVol(vol)
    /\ UNCHANGED << isUnoOnline, lastRfidFromUno, telemetry, blinkPin,
                    blinkInterval, blinkLedState, mcuPc, flashRet, error,
                    serial, histVars >>
    /\ UNCHANGED mcuTimers
    /\ UNCHANGED unoVars

\* lines 377-378: /api/blink_g, /api/blink_b
ApiBlink ==
    /\ ServerUp
    /\ \E pin \in Pins : StartBlinkingLED(pin, API_BLINK_MS)
    /\ UNCHANGED << isUnoOnline, lastRfidFromUno, telemetry, mcuPc,
                    flashRet, error, serial, wireTx, histVars >>
    /\ UNCHANGED mcuClock
    /\ UNCHANGED unoVars

\* lines 379-382: /api/on_g, /api/on_b, /api/off_g, /api/off_b
ApiSetLEDOn(pin, status) ==
    /\ ServerUp
    /\ LET led == SetLED(pin, status, ledG, ledB)
       IN  /\ isBlinking' = led[1]
           /\ ledG' = led[2]
           /\ ledB' = led[3]
    /\ UNCHANGED << isUnoOnline, lastRfidFromUno, telemetry, blinkPin,
                    blinkInterval, blinkLedState, mcuPc, flashRet, error,
                    serial, wireTx, histVars >>
    /\ UNCHANGED mcuTimers
    /\ UNCHANGED unoVars

ApiSetLED == \E pin \in Pins, status \in {LOW, HIGH} : ApiSetLEDOn(pin, status)

\* line 383: /api/stop_blink
ApiStopBlink ==
    /\ ServerUp
    /\ LET led == SetSolidLEDColor(FALSE, FALSE)
       IN  /\ isBlinking' = led[1]
           /\ ledG' = led[2]
           /\ ledB' = led[3]
    /\ UNCHANGED << isUnoOnline, lastRfidFromUno, telemetry, blinkPin,
                    blinkInterval, blinkLedState, mcuPc, flashRet, error,
                    serial, wireTx, histVars >>
    /\ UNCHANGED mcuTimers
    /\ UNCHANGED unoVars

McuNext ==
    \/ BootPoll
    \/ BootPlayTrack
    \/ BootBlink
    \/ BootFinish
    \/ LoopPoll
    \/ FlashOff
    \/ handleBlink
    \/ ApiPlay
    \/ ApiVolume
    \/ ApiBlink
    \/ ApiSetLED
    \/ ApiStopBlink

\* the coordinator's boot and polls alone (no HTTP request arrives), with
\* the history of the first polls kept
McuLinkNext ==
    \/ BootPollRec
    \/ BootPlayTrack
    \/ BootBlink
    \/ BootFinish
    \/ LoopPollRec
    \/ FlashOff

\* ------------------------------------------------------------------------
\* Specifications
\* ------------------------------------------------------------------------
\* the timers as the globals declare them (all 0), the clocks at 0
TimersAtBoot ==
    /\ mcuMillis = <<0, 0>>
    /\ lastI2CCheckMillis = <<0, 0>>
    /\ lastWifiCheckMillis = <<0, 0>>
    /\ previousBlinkMillis = <<0, 0>>
    /\ mcuRan = {}
    /\ mcuPasses = 0
    /\ polledAt = <<>>
    /\ unoMillis = <<0, 0>>
    /\ lastRfidCheckMillis = <<0, 0>>
    /\ lastENVCheckMillis = <<0, 0>>
    /\ unoRan = {}
    /\ unoPasses = 0

Init == UnoInit /\ McuInit /\ TimersAtBoot

SpecMcu == Init /\ [][McuNext]_vars

SpecMcuLink == Init /\ [][McuLinkNext]_vars

\* ------------------------------------------------------------------------
\* The interval gates.  SpecSched follows the two loops pass by pass with
\* their clocks: on every pass millis() has advanced by PassMs, the
\* peripheral answers a poll with a complete Idle frame, the network is
\* connected, no card is in the field, the DHT answers nan and no command
\* is pending, so that a task's body leaves nothing but its stamp.
\* ------------------------------------------------------------------------
\* now + ms in unsigned long, for ms below 2^16
Add32(now, ms) ==
    LET low == now[2] + ms
    IN  << (now[1] + low \div HalfModulus) % HalfModulus,
           low % HalfModulus >>

\* a - b in unsigned long: the difference modulo 2^32
Sub32(a, b) ==
    LET low == a[2] - b[2]
        borrow == IF low < 0 THEN 1 ELSE 0
    IN  << (a[1] - b[1] - borrow) % HalfModulus, low % HalfModulus >>

\* a variant of Elapsed32: a clock behind the stamp counts as no time
\* elapsed (the difference is not taken modulo 2^32)
ElapsedNoWrap(now, last) ==
    IF now[1] < last[1] \/ (now[1] = last[1] /\ now[2] < last[2])
    THEN <<0, 0>>
    ELSE Sub32(now, last)

\* millis() - last
Elapsed32(now, last) == Sub32(now, last)

\* a variant of Due: the interval has to be exceeded
DueStrict(now, last, interval) ==
    LET d == Elapsed32(now, last) IN d[1] > 0 \/ d[2] > interval

\* MCU lines 154, 165, 425: if (millis() - last >= interval);
\* UNO lines 101, 127: if (millis() - last < interval) return;
\* the interval is a uint16_t
Due(now, last, interval) ==
    LET d == Elapsed32(now, last) IN ~(d[1] = 0 /\ d[2] < interval)

\* the length of a pass: a fifth of the poll interval
PassMs == I2C_CHECK_INTERVAL_MS \div 5

\* a clock value six and a half passes before millis() wraps to 0
NearWrap == Sub32(<<0, 0>>, <<0, 6 * PassMs + PassMs \div 2>>)

\* the clocks shortly before the wrap: the poll and the card check have
\* just run, the network check and the environment sample are due in five
\* passes
TimersNearWrap ==
    /\ mcuMillis = NearWrap
    /\ lastI2CCheckMillis = NearWrap
    /\ lastWifiCheckMillis =
            Sub32(NearWrap, <<0, WIFI_RECONNECT_INTERVAL_MS - 5 * PassMs>>)
    /\ previousBlinkMillis = <<0, 0>>
    /\ mcuRan = {}
    /\ mcuPasses = 0
    /\ polledAt = <<NearWrap>>
    /\ unoMillis = NearWrap
    /\ lastRfidCheckMillis = NearWrap
    /\ lastENVCheckMillis =
            Sub32(NearWrap, <<0, ENV_CHECK_INTERVAL_MS - 5 * PassMs>>)
    /\ unoRan = {}
    /\ unoPasses = 0

\* the coordinator when setup() returns (line 137), its first poll having
\* found the peripheral with nothing to report
McuLoopEntry ==
    /\ isUnoOnline = TRUE
    /\ lastRfidFromUno = NA
    /\ currentTemperature = INITIAL_TEMPERATURE_TENTHS
    /\ currentHumidity = 0
    /\ lightLevel = 0
    /\ isBlinking = FALSE
    /\ blinkPin = "G"
    /\ blinkInterval = BOOT_BLINK_MS
    /\ blinkLedState = HIGH
    /\ ledG = HIGH
    /\ ledB = HIGH
    /\ mcuPc = "loop"
    /\ flashRet = "boot_link"
    /\ error = UNO_I2C_REQUEST
    /\ serial = << <<"online">> >>
    /\ wireTx = <<CMD_PLAY, 1>>
    /\ pollHist = <<>>
    /\ linkHist = <<>>
    /\ logCount = 0

\* a variant of PollStamp: only a complete read restarts the interval
PollStampOnSuccess(now, n, last) ==
    IF n = UNO_I2C_REQUEST THEN now ELSE last

\* line 166: lastI2CCheckMillis = millis(), before the read and whatever
\* it returns
PollStamp(now, n, last) == now

\* what Wire.requestFrom returns on a timed pass: the 10 bytes of an
\* Idle frame, or 0 with no peripheral answering
PassPollLens == {UNO_I2C_REQUEST, 0}

\* MCU lines 139-146: one pass of loop(): handleBlink,
\* handleI2CCommunication with a read of n bytes, handleWiFiReconnect
McuPassWith(n) ==
    /\ mcuPc = "loop"
    /\ mcuPasses < MaxPasses
    /\ LET now == Add32(mcuMillis, PassMs)
           blinkDue == isBlinking
                         /\ Due(now, previousBlinkMillis, blinkInterval)
           i2cDue == Due(now, lastI2CCheckMillis, I2C_CHECK_INTERVAL_MS)
           wifiDue == Due(now, lastWifiCheckMillis,
                          WIFI_RECONNECT_INTERVAL_MS)
       IN  /\ mcuMillis' = now
           \* lines 423-436
           /\ previousBlinkMillis' =
                  IF blinkDue THEN now ELSE previousBlinkMillis
           /\ IF blinkDue THEN BlinkToggle ELSE UNCHANGED indicator
           \* lines 165-178 and 213-220, a complete read being Idle
           /\ lastI2CCheckMillis' =
                  IF i2cDue THEN PollStamp(now, n, lastI2CCheckMillis)
                  ELSE lastI2CCheckMillis
           /\ polledAt' = IF i2cDue THEN <<now>> ELSE polledAt
           /\ IF i2cDue
              THEN /\ error' = n
                   /\ serial' = LinkLog(n, isUnoOnline)
                   /\ isUnoOnline' = LinkOk(n)
                   /\ lastRfidFromUno' =
                          IF LinkOk(n) THEN lastRfidFromUno
                          ELSE CardOnFailure
              ELSE UNCHANGED << error, serial, isUnoOnline,
                                lastRfidFromUno >>
           \* lines 154-160, WiFi.status() being WL_CONNECTED
           /\ lastWifiCheckMillis' =
                  IF wifiDue THEN now ELSE lastWifiCheckMillis
           /\ mcuRan' = {t \in {"blink"} : blinkDue}
                            \cup {t \in {"i2c"} : i2cDue}
                            \cup {t \in {"wifi"} : wifiDue}
    /\ mcuPasses' = mcuPasses + 1
    /\ UNCHANGED << telemetry, mcuPc, flashRet, wireTx, histVars >>
    /\ UNCHANGED unoVars

\* a pass on which the peripheral answers
McuPass == McuPassWith(UNO_I2C_REQUEST)

\* a pass with either outcome of the read
McuPassAny == \E n \in PassPollLens : McuPassWith(n)

\* MCU line 101: one iteration of while (!isUnoOnline)
\* handleI2CCommunication(), with a read of n bytes
BootPassWith(n) ==
    /\ mcuPc = "boot_link"
    /\ ~BootLinkUp
    /\ mcuPasses < MaxPasses
    /\ LET now == Add32(mcuMillis, PassMs)
           i2cDue == Due(now, lastI2CCheckMillis, I2C_CHECK_INTERVAL_MS)
       IN  /\ mcuMillis' = now
           /\ lastI2CCheckMillis' =
                  IF i2cDue THEN PollStamp(now, n, lastI2CCheckMillis)
                  ELSE lastI2CCheckMillis
           /\ polledAt' = IF i2cDue THEN <<now>> ELSE polledAt
           /\ IF i2cDue
              THEN /\ error' = n
                   /\ serial' = LinkLog(n, isUnoOnline)
                   /\ isUnoOnline' = LinkOk(n)
                   /\ lastRfidFromUno' =
                          IF LinkOk(n) THEN lastRfidFromUno
                          ELSE CardOnFailure
              ELSE UNCHANGED << error, serial, isUnoOnline,
                                lastRfidFromUno >>
           /\ mcuRan' = {t \in {"i2c"} : i2cDue}
    /\ mcuPasses' = mcuPasses + 1
    /\ UNCHANGED << lastWifiCheckMillis, previousBlinkMillis >>
    /\ UNCHANGED << telemetry, indicator, mcuPc, flashRet, wireTx,
                    histVars >>
    /\ UNCHANGED unoVars

BootPass == \E n \in PassPollLens : BootPassWith(n)

\* MCU lines 112-115: one iteration of the wait for the network:
\* handleBlink(); delay(100)
BootWifiPass ==
    /\ mcuPc = "boot_wifi"
    /\ mcuPasses < MaxPasses
    /\ LET now == Add32(mcuMillis, PassMs)
           blinkDue == isBlinking
                         /\ Due(now, previousBlinkMillis, blinkInterval)
       IN  /\ mcuMillis' = now
           /\ previousBlinkMillis' =
                  IF blinkDue THEN now ELSE previousBlinkMillis
           /\ IF blinkDue THEN BlinkToggle ELSE UNCHANGED indicator
           /\ mcuRan' = {t \in {"blink"} : blinkDue}
    /\ mcuPasses' = mcuPasses + 1
    /\ UNCHANGED << lastI2CCheckMillis, lastWifiCheckMillis, polledAt >>
    /\ UNCHANGED << isUnoOnline, lastRfidFromUno, telemetry, mcuPc,
                    flashRet, error, serial, wireTx, histVars >>
    /\ UNCHANGED unoVars

\* UNO lines 90-94: one pass of loop(): handleRFID, handleENVSensor,
\* handleCommands
UnoPass ==
    /\ unoPc = "rfid"
    /\ unoPasses < MaxPasses
    /\ LET now == Add32(unoMillis, PassMs)
           rfidDue == Due(now, lastRfidCheckMillis, RFID_CHECK_INTERVAL_MS)
           envDue == Due(now, lastENVCheckMillis, ENV_CHECK_INTERVAL_MS)
       IN  /\ unoMillis' = now
           \* lines 101-102
           /\ lastRfidCheckMillis' =
                  IF rfidDue THEN now ELSE lastRfidCheckMillis
           \* lines 127-128
           /\ lastENVCheckMillis' =
                  IF envDue THEN now ELSE lastENVCheckMillis
           /\ unoRan' = {t \in {"rfid"} : rfidDue}
                            \cup {t \in {"env"} : envDue}
    /\ unoPasses' = unoPasses + 1
    /\ UNCHANGED << unoPc, idx, uidLocal, envLocal, cmdTag >>
    /\ UNCHANGED evVars
    /\ UNCHANGED cmdVars
    /\ UNCHANGED mcuVars

SchedInit ==
    /\ UnoInit
    /\ McuLoopEntry
    /\ (TimersAtBoot \/ TimersNearWrap)

SchedNext ==
    \/ McuPass
    \/ UnoPass
    \/ ApiBlink
    \/ ApiSetLED
    \/ ApiStopBlink

SpecSched == SchedInit /\ [][SchedNext]_vars

\* the polls against the clock, from power-up and across the wrap of
\* millis(), with reads that fail
PollInit ==
    /\ UnoInit
    /\ \/ McuInit /\ TimersAtBoot
       \/ McuLoopEntry /\ TimersNearWrap

PollNext ==
    \/ BootPass
    \/ BootPlayTrack
    \/ BootWifiPass
    \/ BootFinish
    \/ McuPassAny

SpecPoll == PollInit /\ [][PollNext]_vars

\* the whole peripheral
UnoNext ==
    \/ handleRFID
    \/ handleENVSensor
    \/ handleCommands
    \/ requestEvent
    \/ Receive

SpecUno == Init /\ [][UnoNext]_vars

\* The event queue and the command slot share no variable, only the loop
\* that runs their handlers in turn.  SpecUnoEv is the peripheral with no
\* command traffic on the bus (handleCommands returns at line 170 on every
\* pass); SpecUnoCmd is the peripheral with no card in the field and a DHT
\* that answers nan (both sampling tasks return before they store).
UnoEvNext ==
    \/ handleRFID
    \/ handleENVSensor
    \/ CmdCheck
    \/ requestEvent

SpecUnoEv == Init /\ [][UnoEvNext]_vars

\* The event queue for as long as the bus is polled.  The history gives
\* an identifier to the first MaxSamples samples only; sampling goes on
\* after them, and SpecUnoLive lets every later sample share the last
\* identifier.  The main loop keeps running and the coordinator keeps
\* polling: both are weakly fair.  What the reader and the sensors
\* return is free on every pass.
\* lines 101-105 for a card accepted after the identified samples
RfidResample ==
    /\ unoPc = "rfid"
    /\ sampleId = MaxSamples
    /\ ~newCardDataAvailable
    /\ \E card \in CardUids :
         /\ uidLocal' = card
         /\ unoPc' = "rfid_tag"
    /\ UNCHANGED << idx, envLocal, cmdTag >>
    /\ UNCHANGED evVars
    /\ UNCHANGED cmdVars
    /\ UNCHANGED unoTimers
    /\ UNCHANGED mcuVars

\* lines 127-136 for a reading accepted after the identified samples
EnvResample ==
    /\ unoPc = "env"
    /\ sampleId = MaxSamples
    /\ ~newENVDataAvailable
    /\ \E r \in {x \in EnvReadings : ~x.nan} :
         /\ envLocal' = r
         /\ idx' = 0
         /\ unoPc' = "env_write"
    /\ UNCHANGED << uidLocal, cmdTag >>
    /\ UNCHANGED evVars
    /\ UNCHANGED cmdVars
    /\ UNCHANGED unoTimers
    /\ UNCHANGED mcuVars

\* UNO lines 90-94: the next statement of loop()
UnoLoopStep ==
    \/ handleRFID
    \/ RfidResample
    \/ handleENVSensor
    \/ EnvResample
    \/ CmdCheck

UnoLiveNext ==
    \/ handleRFID
    \/ RfidResample
    \/ handleENVSensor
    \/ EnvResample
    \/ CmdCheck
    \/ requestEvent

SpecUnoLive ==
    /\ Init
    /\ [][UnoLiveNext]_vars
    /\ WF_vars(UnoLoopStep)
    /\ WF_vars(requestEvent)

RfidNoCard == RfidCheckOn({<<>>})
EnvNoReading == EnvCheckOn({r \in EnvReadings : r.nan})

UnoCmdNext ==
    \/ RfidNoCard
    \/ EnvNoReading
    \/ handleCommands
    \/ Receive

SpecUnoCmd == Init /\ [][UnoCmdNext]_vars

\* ------------------------------------------------------------------------
\* Claims about the peripheral's event queue (SpecUnoEv)
\* ------------------------------------------------------------------------
\* the main loop is inside the byte writes of a sampling task
MidWrite == unoPc \in {"rfid_tag", "rfid_copy", "rfid_set",
                       "env_write", "env_set"}

\* the frames of complete samples
SampleFrames ==
    {CardFrame(u) : u \in CardUids}
        \cup {EnvFrame(r) : r \in {x \in EnvReadings : ~x.nan}}

\* C1: a poll that consumes a pending event sends exactly the kind tag and
\* payload bytes that were stored when that event was accepted, whatever
\* event of the other kind was accepted in between.  Stated for polls that
\* arrive between two handlers of the main loop, so that no byte write is
\* in progress.
C1_ConsumedFrameIsStoredFrame ==
    [][ (requestEvent /\ ~MidWrite) =>
          /\ newCardDataAvailable => wireOut' = stored.card.frame
          /\ (~newCardDataAvailable /\ newENVDataAvailable)
                => wireOut' = stored.env.frame ]_vars

\* C2: with a card event and an environment event both pending, the next
\* poll answers the CardEvent frame (tag 0x01, the card's bytes) and leaves
\* the environment event pending; the poll that finds only the environment
\* event pending answers that sample's EnvironmentEvent frame (tag 0x02).
C2_CardFirstThenEnvironment ==
    [][ requestEvent =>
          /\ (newCardDataAvailable /\ newENVDataAvailable) =>
                /\ wireOut' = stored.card.frame
                /\ wireOut'[1] = FLAG_RFID_NEW
                /\ newENVDataAvailable'
                /\ stored'.env = stored.env
          /\ (~newCardDataAvailable /\ newENVDataAvailable /\ ~MidWrite) =>
                /\ wireOut' = stored.env.frame
                /\ wireOut'[1] = FLAG_ENV_NEW ]_vars

\* C3: at-most-once delivery: no accepted sample is copied whole into more
\* than one outgoing frame.
C3_AtMostOnceDelivery ==
    \A id \in 1..MaxSamples : delivered[id] <= 1

\* C4: whatever statement of a sampling task the request callback
\* interrupts, the frame it sends is the Idle frame or the complete 10
\* bytes of one sample, never a mixture or a partly written sample.
C4_NoTornFrame ==
    [][ requestEvent =>
          \/ wireOut' = IdleFrame
          \/ wireOut' \in SampleFrames ]_vars

\* ------------------------------------------------------------------------
\* Claims about the peripheral's command slot (SpecUnoCmd)
\* ------------------------------------------------------------------------
\* C5: dispatch never plays a torn command: the track it plays is the
\* parameter of a (PlayTrack, parameter) pair that the slot held after one
\* single receive.
C5_NoTornCommand ==
    player[1] = "play" => <<CMD_PLAY, player[2]>> \in held

\* C6: the command dispatch clears from the slot is the command it
\* executed: no receive has written the slot between dispatch's read of the
\* tag and its clearing of the pending flag.
C6_ClearsWhatItExecuted ==
    [][ CmdClear => rxSeq = dispSeq ]_vars

\* ------------------------------------------------------------------------
\* Claims about the coordinator's link state (SpecMcu, SpecMcuLink)
\* ------------------------------------------------------------------------
\* a step of handleI2CCommunication that executes a poll
PollTaken == BootPoll \/ LoopPoll

\* C7: the link flag is a function of the latest poll only: Offline before
\* the first poll, and after a poll Online exactly when that poll returned
\* 10 bytes; a poll of any other length is neither taken for an Idle frame
\* (the flag goes Offline) nor decoded (no telemetry change, no flash).
C7_LinkFollowsLastPoll ==
    /\ [](isUnoOnline <=> error = UNO_I2C_REQUEST)
    /\ [][ (PollTaken /\ error' # UNO_I2C_REQUEST) =>
              /\ ~isUnoOnline'
              /\ UNCHANGED telemetry
              /\ UNCHANGED indicator
              /\ mcuPc' = mcuPc ]_vars

\* a poll of more than 10 bytes has put the link Offline after telemetry
\* had been received
C7_Witness ==
    /\ error > UNO_I2C_REQUEST
    /\ ~isUnoOnline
    /\ currentTemperature # INITIAL_TEMPERATURE_TENTHS

\* C8: link logging is edge-triggered: a poll prints a link line exactly
\* when it changes the link flag, "online" on Offline -> Online and "lost"
\* with the byte count it observed on Online -> Offline.
C8_LinkLogEdgeTriggered ==
    [][ PollTaken =>
          /\ (serial' # <<>>) <=> (isUnoOnline' # isUnoOnline)
          /\ (isUnoOnline /\ ~isUnoOnline')
                => serial' = << <<"lost", error'>> >>
          /\ (~isUnoOnline /\ isUnoOnline')
                => serial' = << <<"online">> >> ]_vars

\* a failed poll while already Offline (after the link had been up)
\* printed nothing
C8_Witness ==
    /\ error \notin {-1, UNO_I2C_REQUEST}
    /\ serial = <<>>
    /\ currentTemperature # INITIAL_TEMPERATURE_TENTHS

\* C9 as stated: from the initial Offline state the outcomes
\* [Ok, Err, Err, Ok] give the link flags Online, Offline, Offline, Online
\* and at most two link lines.
C9_AtMostTwoLinkLines ==
    pollHist = <<"Ok", "Err", "Err", "Ok">> =>
        /\ linkHist = <<TRUE, FALSE, FALSE, TRUE>>
        /\ logCount <= 2

\* C9 as amended: the same outcomes give the link flags Online, Offline,
\* Offline, Online and exactly three link lines (online, lost, online),
\* one per change of the flag, not four.
C9_ThreeLinkLines ==
    pollHist = <<"Ok", "Err", "Err", "Ok">> =>
        /\ linkHist = <<TRUE, FALSE, FALSE, TRUE>>
        /\ logCount = 3

C9_Witness == pollHist = <<"Ok", "Err", "Err", "Ok">>

\* C10: wherever a request handler can read the snapshot, Offline implies
\* the card identifier is "N/A"; every failed poll sets it to "N/A", and
\* it becomes a value other than "N/A" only by a successful poll that
\* carries a CardEvent frame.
C10_OfflineMeansNoCard ==
    /\ [](~isUnoOnline => lastRfidFromUno = NA)
    /\ [][ /\ (PollTaken /\ error' # UNO_I2C_REQUEST)
                => lastRfidFromUno' = NA
           /\ (lastRfidFromUno' # lastRfidFromUno /\ lastRfidFromUno' # NA)
                => /\ PollTaken
                   /\ error' = UNO_I2C_REQUEST
                   /\ isUnoOnline'
                   /\ \E f \in PollFrames :
                        /\ f[1] = FLAG_RFID_NEW
                        /\ lastRfidFromUno' = UidString(f) ]_vars

\* the link has just been lost while the HTTP server is running
C10_Witness ==
    /\ ServerUp
    /\ ~isUnoOnline
    /\ serial # <<>>
    /\ lastRfidFromUno = NA

\* an executed poll whose read was complete and delivered the frame f
PollOf(f) == Poll(UNO_I2C_REQUEST, f) /\ PollTaken

\* C11: a failed poll leaves temperature, humidity and light as they were,
\* and so does a successful poll that carries an Idle or a CardEvent frame
\* (the recovery from Offline included); the three fields change only on
\* a successful poll that carries an EnvironmentEvent frame.
C11_TelemetryOnlyFromEnvironmentFrame ==
    [][ /\ (error' # UNO_I2C_REQUEST /\ PollTaken) => UNCHANGED telemetry
        /\ \A f \in PollFrames :
              (PollOf(f) /\ f[1] \in {FLAG_IDLE, FLAG_RFID_NEW})
                  => UNCHANGED telemetry
        /\ (telemetry' # telemetry)
              => \E f \in PollFrames :
                    f[1] = FLAG_ENV_NEW /\ PollOf(f) ]_vars

\* the link has come back by a CardEvent frame (the failed poll before it
\* had reset the identifier) and the sample decoded before the loss is
\* still there
C11_Witness ==
    /\ isUnoOnline
    /\ serial = << <<"online">> >>
    /\ lastRfidFromUno \notin {NA}
    /\ mcuPc = "flash"
    /\ currentTemperature = 250
    /\ currentHumidity = 50
    /\ lightLevel = 513

\* C12: the frame a poll is answered with has the Idle tag exactly when
\* neither the card nor the environment event is pending at the moment of
\* the poll; the Idle frame is all zero, and answering with it changes
\* neither pending flag.
C12_IdleIffNothingPending ==
    [][ requestEvent =>
          /\ (wireOut'[1] = FLAG_IDLE)
                <=> (~newCardDataAvailable /\ ~newENVDataAvailable)
          /\ (wireOut'[1] = FLAG_IDLE)
                => /\ \A i \in 1..I2C_PACKET_SIZE : wireOut'[i] = 0
                   /\ UNCHANGED << newCardDataAvailable,
                                   newENVDataAvailable >> ]_vars

\* a poll was answered Idle while handleRFID was in the middle of storing
\* a card (tag written, flag not yet set)
C12_Witness ==
    /\ wireOut = IdleFrame
    /\ unoPc = "rfid_copy"
    /\ payload[1] = FLAG_RFID_NEW
    /\ ~newCardDataAvailable
    /\ ~newENVDataAvailable

C14_LastWriterWins ==
    [][ /\ \A b \in RxInputs :
              (Len(b) >= 1 /\ receiveEvent(b))
                  => /\ IsCMD'
                     /\ command_to_run' = b[1]
                     /\ (b[1] = CMD_PLAY /\ Len(b) > 1)
                           => command_param' = b[2]
        /\ Len(rxSince) = 2 => IsCMD'
        /\ (Len(rxSince) = 2 /\ CmdSwitch) => cmdTag' = rxSince[2][1]
        /\ (rxSince = << <<CMD_PLAY, 5>>, <<CMD_VOL_UP>> >>
                /\ player' # player)
              => player' = <<"volumeUp">> ]_vars

\* C15: a PlayTrack received with only its tag byte sets the flag and the
\* tag and leaves command_param as it was; the command stays pending
\* until a dispatch reads it, and that dispatch goes on to play
\* command_param.
C15_TagOnlyPlayKeepsParameter ==
    [][ /\ receiveEvent(<<CMD_PLAY>>)
              => /\ IsCMD'
                 /\ command_to_run' = CMD_PLAY
                 /\ command_param' = command_param
        /\ (rxSince # <<>> /\ rxSince[Len(rxSince)] = <<CMD_PLAY>>)
              => /\ IsCMD'
                 /\ CmdSwitch => unoPc' = "cmd_play"
        /\ CmdPlay => player' = <<"play", command_param>> ]_vars

\* C16: the frame handleENVSensor builds for a reading (temperature in
\* tenths as a signed 16-bit value, humidity, light as a signed 16-bit
\* value) is decoded by the coordinator to the same temperature, humidity
\* and light, negative temperatures included.
C16_EnvironmentRoundTrip ==
    [][ \A r \in {x \in EnvReadings : ~x.nan} :
          PollOf(EnvFrame(r))
              => /\ currentTemperature' = r.t10
                 /\ currentHumidity' = r.h
                 /\ lightLevel' = r.l ]_vars

\* C17: a successful poll that carries a CardEvent frame stores as the
\* card identifier the 8 characters made of bytes 1..4 of the frame, each
\* as two upper-case hexadecimal digits with a leading zero where needed
\* (DE AD BE EF gives "DEADBEEF", 01 0A 00 FF gives "010A00FF"); bytes
\* 5..9 take no part.
C17_CardIdentifierRendering ==
    /\ [][ LET Digits == << "0", "1", "2", "3", "4", "5", "6", "7", "8",
                            "9", "A", "B", "C", "D", "E", "F" >>
               TwoDigits(b) == << Digits[(b \div 16) + 1],
                                  Digits[(b % 16) + 1] >>
               Identifier(f) == TwoDigits(f[2]) \o TwoDigits(f[3])
                                   \o TwoDigits(f[4]) \o TwoDigits(f[5])
           IN  \A f \in PollFrames :
                  (PollOf(f) /\ f[1] = FLAG_RFID_NEW)
                      => /\ lastRfidFromUno' = Identifier(f)
                         /\ Len(lastRfidFromUno') = 8 ]_vars
    /\ [](lastRfidFromUno \in
             { NA,
               <<"D", "E", "A", "D", "B", "E", "E", "F">>,
               <<"0", "1", "0", "A", "0", "0", "F", "F">> })

\* the frame of the 7-byte card (01 0A 00 FF 04 05 06 in bytes 1..7) has
\* just been decoded
C17_Witness ==
    /\ mcuPc = "flash"
    /\ isUnoOnline
    /\ lastRfidFromUno = <<"0", "1", "0", "A", "0", "0", "F", "F">>

\* C19: a successful poll that carries the Idle frame sets the link flag
\* and changes nothing else of the snapshot (card identifier, temperature,
\* humidity, light); it does not flash, and the indicator (blinking flag,
\* blink pin, interval and phase, both LED levels) is as it was.
C19_IdlePollOnlySetsLink ==
    [][ PollOf(IdleFrame)
          => /\ isUnoOnline'
             /\ UNCHANGED << lastRfidFromUno, telemetry >>
             /\ UNCHANGED indicator
             /\ mcuPc' = mcuPc
             /\ mcuPc' # "flash" ]_vars

\* the link has come back on a poll that neither flashed nor ended the
\* blinking, with no card and no sample decoded
C19_Witness ==
    /\ isUnoOnline
    /\ serial = << <<"online">> >>
    /\ mcuPc = "loop"
    /\ isBlinking
    /\ blinkLedState = LOW
    /\ lastRfidFromUno = NA
    /\ currentTemperature = INITIAL_TEMPERATURE_TENTHS

\* C20: a complete read whose kind tag is none of 0x00, 0x01, 0x02 leaves
\* the link Online and the card identifier, temperature, humidity and
\* light unchanged, whatever the tag and the other nine bytes are.
C20_UnknownTagIgnored ==
    [][ \A f \in PollFrames :
          (PollOf(f) /\ f[1] \notin {FLAG_IDLE, FLAG_RFID_NEW, FLAG_ENV_NEW})
              => /\ isUnoOnline'
                 /\ UNCHANGED << lastRfidFromUno, telemetry >> ]_vars

\* the flash that follows a successful poll is on, and neither a card nor
\* a sample has ever been decoded: the frame had an unknown tag
C20_Witness ==
    /\ mcuPc = "flash"
    /\ isUnoOnline
    /\ lastRfidFromUno = NA
    /\ currentTemperature = INITIAL_TEMPERATURE_TENTHS
    /\ currentHumidity = 0
    /\ lightLevel = 0

\* C18: on every pass each gated task (bus poll, network check, blink tick
\* while blinking, card check, environment sample) runs exactly when
\* (now - last run) modulo 2^32 is at least its interval, and a run stamps
\* the task with now while a skipped pass leaves the stamp.  With the
\* interval 500, the stamp at the starting clock and 100 ms per pass the
\* poll runs on every fifth pass and on no other: at 500, 1000, 1500 from
\* clock 0, and 500 ms apart across the wrap of the clock as well.
C18_IntervalGating ==
    /\ [][ mcuPasses' # mcuPasses =>
             LET AtLeast(last, interval) ==
                     LET d == Sub32(mcuMillis', last)
                     IN  d[1] > 0 \/ d[2] >= interval
                 Stamp(task, last) ==
                     IF task \in mcuRan' THEN mcuMillis' ELSE last
             IN  /\ "i2c" \in mcuRan'
                       <=> AtLeast(lastI2CCheckMillis, I2C_CHECK_INTERVAL_MS)
                 /\ "wifi" \in mcuRan'
                       <=> AtLeast(lastWifiCheckMillis,
                                   WIFI_RECONNECT_INTERVAL_MS)
                 /\ "blink" \in mcuRan'
                       <=> (isBlinking
                              /\ AtLeast(previousBlinkMillis, blinkInterval))
                 /\ "blink" \in mcuRan' <=> blinkLedState' # blinkLedState
                 /\ lastI2CCheckMillis' = Stamp("i2c", lastI2CCheckMillis)
                 /\ lastWifiCheckMillis' = Stamp("wifi", lastWifiCheckMillis)
                 /\ previousBlinkMillis' = Stamp("blink", previousBlinkMillis)
                 /\ "i2c" \in mcuRan'
                       => Sub32(mcuMillis', lastI2CCheckMillis)
                             = <<0, I2C_CHECK_INTERVAL_MS>> ]_vars
    /\ [][ unoPasses' # unoPasses =>
             LET AtLeast(last, interval) ==
                     LET d == Sub32(unoMillis', last)
                     IN  d[1] > 0 \/ d[2] >= interval
                 Stamp(task, last) ==
                     IF task \in unoRan' THEN unoMillis' ELSE last
             IN  /\ "rfid" \in unoRan'
                       <=> AtLeast(lastRfidCheckMillis, RFID_CHECK_INTERVAL_MS)
                 /\ "env" \in unoRan'
                       <=> AtLeast(lastENVCheckMillis, ENV_CHECK_INTERVAL_MS)
                 /\ lastRfidCheckMillis' = Stamp("rfid", lastRfidCheckMillis)
                 /\ lastENVCheckMillis' = Stamp("env", lastENVCheckMillis)
           ]_vars
    /\ []("i2c" \in mcuRan <=> (mcuPasses > 0 /\ mcuPasses % 5 = 0))
    /\ [](mcuMillis = <<0, PassMs * mcuPasses>>
            => ("i2c" \in mcuRan
                  <=> (mcuMillis[2] > 0
                         /\ mcuMillis[2] % I2C_CHECK_INTERVAL_MS = 0)))
    /\ []("rfid" \in unoRan <=> (unoPasses > 0 /\ unoPasses % 2 = 0))

\* the tenth pass of the run that started 650 ms before the wrap: the
\* clock has wrapped to 350, and the poll and the blink tick have just run
C18_Witness ==
    /\ mcuPasses = 10
    /\ mcuMillis = <<0, 350>>
    /\ mcuRan = {"i2c", "blink"}
    /\ lastI2CCheckMillis = mcuMillis
    /\ previousBlinkMillis = mcuMillis

\* ------------------------------------------------------------------------
\* C22: a command submitted on the coordinator while the link flag is
\* false is lost: playTrack and chgVol return at their first line, so no
\* bytes are written to the bus, nothing is kept for later (the coordinator
\* has no variable that could hold a command), and the link flag, the
\* card identifier and the telemetry stay as they were.  Conversely the
\* bytes last written to the bus change only in a step that starts with
\* the link flag true.
\* ------------------------------------------------------------------------
CommandSubmitted == ApiPlay \/ ApiVolume

C22_OfflineCommandLost ==
    [][ /\ (~isUnoOnline /\ CommandSubmitted)
           => UNCHANGED << wireTx, isUnoOnline, lastRfidFromUno, telemetry,
                           indicator, error, serial >>
        /\ (wireTx' # wireTx) => isUnoOnline ]_vars

\* the link was lost after a volume command went out, the server is up,
\* and a play request submitted now leaves every variable as it is
C22_Witness ==
    /\ ~isUnoOnline
    /\ ServerUp
    /\ wireTx = <<CMD_VOL_UP>>
    /\ ENABLED (ApiPlay /\ UNCHANGED vars)

\* ------------------------------------------------------------------------
\* C23: once startBlinkingLED has set isBlinking, it stays set until a
\* solid level or a stop is requested (the /api/on_*, /api/off_* and
\* /api/stop_blink handlers, or the end of setup); neither a poll that
\* receives a frame with a non-zero tag nor a playTrack / chgVol ends the
\* blinking.
\* ------------------------------------------------------------------------
SolidOrStopRequested == ApiSetLED \/ ApiStopBlink \/ BootFinish

C23_BlinkingUntilSolidOrStop ==
    [][ (isBlinking /\ ~isBlinking') => SolidOrStopRequested ]_vars

\* ------------------------------------------------------------------------
\* C24: after /api/stop_blink the indicator is solid with both channels
\* off (both pins HIGH, the LEDs being active-low); after setLED(pin,
\* status) blinking is cancelled, the named pin is driven LOW for HIGH
\* and HIGH for LOW, and the other pin keeps its level; while isBlinking
\* is false a pass of loop() changes no pin level and no blink phase, and
\* only startBlinkingLED sets isBlinking again.
\* ------------------------------------------------------------------------
PinLevel(pin, g, b) == IF pin = "G" THEN g ELSE b

OtherPin(pin) == IF pin = "G" THEN "B" ELSE "G"

C24_SolidStaysSolid ==
    [][ /\ ApiStopBlink
           => (~isBlinking' /\ ledG' = HIGH /\ ledB' = HIGH)
        /\ \A pin \in Pins, status \in {LOW, HIGH} :
             ApiSetLEDOn(pin, status)
               => /\ ~isBlinking'
                  /\ PinLevel(pin, ledG', ledB')
                       = (IF status = HIGH THEN LOW ELSE HIGH)
                  /\ PinLevel(OtherPin(pin), ledG', ledB')
                       = PinLevel(OtherPin(pin), ledG, ledB)
        /\ (~isBlinking /\ mcuPasses' # mcuPasses)
           => (UNCHANGED << ledG, ledB, blinkLedState, isBlinking >>
               /\ "blink" \notin mcuRan')
        /\ (~isBlinking /\ isBlinking') => ApiBlink ]_vars

\* a blink started over HTTP toggled at least once and was then stopped:
\* both pins are off although the phase was left LOW, and three blink
\* intervals have gone by since the last toggle without another one
C24_Witness ==
    /\ ~isBlinking
    /\ blinkInterval = API_BLINK_MS
    /\ blinkLedState = LOW
    /\ ledG = HIGH
    /\ ledB = HIGH
    /\ Due(mcuMillis, previousBlinkMillis, 3 * API_BLINK_MS)

\* ------------------------------------------------------------------------
\* C26: setup() passes line 101 only after a poll has returned exactly 10
\* bytes: as long as every poll so far was short, the coordinator is
\* still in the while loop, Offline, and has written nothing to the bus;
\* the first bus write is the boot play command <<'P', 1>>, it is made
\* with the link flag true and the last poll complete, and it is the step
\* that leaves the while loop; the network wait and loop() come only
\* after it.
\* ------------------------------------------------------------------------
Booting == mcuPc = "boot_link" \/ (mcuPc = "flash" /\ flashRet = "boot_link")

NoCompleteReadYet ==
    /\ Len(pollHist) < MaxHist
    /\ \A i \in 1..Len(pollHist) : pollHist[i] = "Err"

C26_BootWaitsForLink ==
    /\ [](NoCompleteReadYet
            => (mcuPc = "boot_link" /\ ~isUnoOnline /\ wireTx = <<>>))
    /\ [](mcuPc \in {"boot_wifi", "loop"} => wireTx # <<>>)
    /\ [][ /\ (wireTx = <<>> /\ wireTx' # <<>>)
             => /\ isUnoOnline
                /\ error = UNO_I2C_REQUEST
                /\ wireTx' = <<CMD_PLAY, 1>>
          /\ (Booting /\ ~Booting')
             => /\ isUnoOnline
                /\ wireTx = <<>>
                /\ wireTx' = <<CMD_PLAY, 1>>
                /\ mcuPc' = "boot_wifi" ]_vars

\* two short reads, then a complete one, and loop() has been entered with
\* the boot command on the bus
C26_Witness ==
    /\ pollHist = <<"Err", "Err", "Ok">>
    /\ mcuPc = "loop"
    /\ wireTx = <<CMD_PLAY, 1>>

\* ------------------------------------------------------------------------
\* C21: two consecutive reads of the bus are at least
\* I2C_CHECK_INTERVAL_MS apart on the clock (modulo 2^32), whether the
\* earlier one was complete or short and whether it was made by the loop
\* of setup() or by loop(); a read is made at the clock value of its
\* pass, one per pass; and a short read changes nothing but the link
\* flag, the card identifier and the link line: the telemetry, the
\* indicator, the bytes last written and the position in the program
\* stay as they were.
\* ------------------------------------------------------------------------
C21_PollSpacing ==
    [][ (polledAt' # polledAt) =>
          /\ polledAt' = <<mcuMillis'>>
          /\ mcuPasses' = mcuPasses + 1
          /\ (polledAt # <<>>) =>
                LET d == Sub32(polledAt'[1], polledAt[1])
                IN  d[1] > 0 \/ d[2] >= I2C_CHECK_INTERVAL_MS
          /\ (error' # UNO_I2C_REQUEST) =>
                /\ ~isUnoOnline'
                /\ lastRfidFromUno' = NA
                /\ UNCHANGED << telemetry, indicator, wireTx, mcuPc,
                                flashRet >> ]_vars

\* loop() has just made a short read after the clock wrapped, and the
\* read before it was short too (the link was already Offline, so no
\* link line was printed)
C21_Witness ==
    /\ mcuPc = "loop"
    /\ polledAt = <<mcuMillis>>
    /\ mcuMillis[1] = 0
    /\ mcuMillis[2] % PassMs # 0
    /\ error = 0
    /\ ~isUnoOnline
    /\ serial = <<>>

\* ------------------------------------------------------------------------
\* C25: with the main loop running and the coordinator polling for ever,
\* every pending event is consumed by some poll: a set card flag is
\* eventually cleared and a set environment flag is eventually cleared,
\* whatever the reader and the sensors return in between.
\* ------------------------------------------------------------------------
C25_PendingEventuallyConsumed ==
    /\ newCardDataAvailable ~> ~newCardDataAvailable
    /\ newENVDataAvailable ~> ~newENVDataAvailable

=============================================================================
